---- MODULE Spec2Model ----
(***************************************************************************)
(* Dataset preparation pipeline of scripts/prepare_and_split.py (scan,     *)
(* split, copy, verify) and the class balancer of                          *)
(* scripts/fix_invalid_train.py / fix_invalid_val.py.                      *)
(*                                                                         *)
(* File names are records [base, sfx, ext] standing for the string         *)
(*   base ++ "_" ++ sfx[1] ++ "_" ++ sfx[2] ... ++ "." ++ ext              *)
(* so that the collision rename f"{base_name}_{randint}{ext}" is Append    *)
(* on sfx, and a source file may already carry such a suffix.              *)
(***************************************************************************)
EXTENDS Integers, Sequences, FiniteSets, TLC

VARIABLES
    fs,             \* the raw root: [exists, dirs (listing order), files (listing per dir)]
    ratios,         \* <<TRAIN_RATIO, VAL_RATIO, TEST_RATIO>> in tenths
    outDirs,        \* (split, class) directories present under OUT_ROOT
    out,            \* files under OUT_ROOT: dest path -> [src, done]
    pc,             \* position of the __main__ block
    runs,           \* number of times the script was started
    interrupts,     \* number of times a run was killed during a copy
    entries,        \* result of collect_images_per_class (ordered dict as a sequence)
    todo,           \* classes copy_split has not reached yet
    cur,            \* the class being processed with its three lists
    queue,          \* transfers of the current class still to do
    draws,          \* random.randint calls since random.seed(RANDOM_SEED)
    total_to_copy,  \* copy_split's total_to_copy
    total_copied,   \* copy_split's total_copied
    log,            \* transfers completed in this run: [src, dst, existed]
    verified,       \* total_files returned by verify_output (-1: not run)
    detA, detB,     \* two enumerations of one raw tree, and
    detPc,          \*   whether both were scanned and split
    detOutA,        \*   the assignment computed from detA
    detOutB,        \*   the assignment computed from detB
    balDir,         \* entries of the balancer's folder: set of [id, kind]
    balCap,         \* max_images
    balOrig,        \* entries of the folder before the first run
    balFiles,       \* files = os.listdir(folder) of the current run
    balPending,     \* delete_files not yet removed
    balRemoved,     \* entries removed by the current run
    balPc,          \* position of the balancer script
    balRuns,        \* completed balancer runs
    ratioN,         \* size of a class bucket
    ratioPc,        \* whether the counts were computed
    ratioCounts     \* <<len(train), len(val), len(test)>>

pipeVars == <<fs, ratios, outDirs, out, pc, runs, interrupts, entries, todo, cur,
              queue, draws, total_to_copy, total_copied, log, verified>>
detVars == <<detA, detB, detPc, detOutA, detOutB>>
balVars == <<balDir, balCap, balOrig, balFiles, balPending, balRemoved, balPc, balRuns>>
ratioVars == <<ratioN, ratioPc, ratioCounts>>
vars == <<pipeVars, detVars, balVars, ratioVars>>

----------------------------------------------------------------------------
(* Bounds *)

MaxPerDir == 3
MaxFiles == 6
MaxRuns == 3
MaxInterrupts == 1
MaxRatioN == 170
MaxCap == 3
MaxBalRuns == 2

----------------------------------------------------------------------------
(* Configuration of prepare_and_split.py; ratios are in tenths *)

RANDOM_SEED == 42
TRAIN_RATIO == 8
VAL_RATIO == 1
TEST_RATIO == 1
COPY_FILES == TRUE

map_to_command ==
    [k \in {"like", "fist", "palm", "one", "peace"} |->
        CASE k = "like" -> "Forward"
          [] k = "fist" -> "Reverse"
          [] k = "palm" -> "Stop"
          [] k = "one" -> "Left"
          [] k = "peace" -> "Right"]

TARGET_CLASSES == <<"Forward", "Reverse", "Stop", "Left", "Right", "Invalid">>

Splits == <<"train", "val", "test">>

(* str.lower() on the strings that occur in the model *)
Lower(s) ==
    CASE s = "Like" -> "like"
      [] s = "PNG" -> "png"
      [] s = "JPG" -> "jpg"
      [] OTHER -> s

(* random.seed(42); random.randint(0, 99999) repeated: the k-th value *)
RandSeq == <<83810, 14592, 3278, 97196, 36048, 32098, 29256, 18289, 96530, 13434,
             88696, 97080, 71482, 11395, 77397, 55302, 4165, 3905, 12280, 28657>>

RandInt(k) == RandSeq[k]

(* numpy RandomState(42).permutation(n), n = 1..12, as train_test_split draws it *)
Perm42 == <<
    <<0>>,
    <<1, 0>>,
    <<0, 1, 2>>,
    <<1, 3, 0, 2>>,
    <<1, 4, 2, 0, 3>>,
    <<0, 1, 5, 2, 4, 3>>,
    <<0, 1, 5, 2, 4, 3, 6>>,
    <<1, 5, 0, 7, 2, 4, 3, 6>>,
    <<7, 1, 5, 0, 8, 2, 4, 3, 6>>,
    <<8, 1, 5, 0, 7, 2, 9, 4, 3, 6>>,
    <<5, 0, 9, 10, 2, 1, 8, 4, 7, 3, 6>>,
    <<10, 9, 0, 8, 5, 2, 1, 11, 4, 7, 3, 6>> >>

----------------------------------------------------------------------------
(* The input universe *)

RawDirs == {"Like", "call", "rock"}

FileNames ==
    { [base |-> "a", sfx |-> <<>>, ext |-> "jpg"],
      [base |-> "b", sfx |-> <<>>, ext |-> "PNG"],
      [base |-> "a", sfx |-> <<RandInt(1)>>, ext |-> "jpg"],
      [base |-> "notes", sfx |-> <<>>, ext |-> "txt"] }

RatioConfigs == { <<8, 1, 1>>, <<5, 1, 1>>, <<8, 3, -1>>, <<8, -1, -1>> }

Injective(s) == \A i, j \in DOMAIN s : i # j => s[i] # s[j]

Range(s) == { s[i] : i \in DOMAIN s }

Listings(S, maxLen) ==
    { s \in UNION { [1..k -> S] : k \in 0..maxLen } : Injective(s) }

RECURSIVE SumLen(_, _)
SumLen(f, S) ==
    IF S = {} THEN 0
    ELSE LET d == CHOOSE x \in S : TRUE IN Len(f[d]) + SumLen(f, S \ {d})

(* Raw roots: a listing order of the sub-directories and one of each one's entries *)
RawTrees ==
    { t \in [exists : {TRUE},
             dirs : Listings(RawDirs, Cardinality(RawDirs)),
             files : { g \in [RawDirs -> Listings(FileNames, MaxPerDir)] :
                         SumLen(g, RawDirs) <= MaxFiles }] :
        \A d \in RawDirs : d \notin Range(t.dirs) => t.files[d] = <<>> }

NoRoot == [exists |-> FALSE, dirs |-> <<>>, files |-> [d \in RawDirs |-> <<>>]]

----------------------------------------------------------------------------
(* Pure parts of prepare_and_split.py *)

IsImage(name) == Lower(name.ext) \in {"jpg", "jpeg", "png"}

MapLabel(src) ==
    IF Lower(src) \in DOMAIN map_to_command THEN map_to_command[Lower(src)] ELSE "Invalid"

(* check_source_directory: the root exists and lists at least one directory *)
check_source_directory(t) == t.exists /\ t.dirs # <<>>

PathsOf(d, names) == [i \in 1..Len(names) |-> [dir |-> d, name |-> names[i]]]

AddEntry(acc, cls, paths) ==
    IF \E i \in DOMAIN acc : acc[i].cls = cls
    THEN [i \in DOMAIN acc |->
            IF acc[i].cls = cls THEN [acc[i] EXCEPT !.files = @ \o paths] ELSE acc[i]]
    ELSE Append(acc, [cls |-> cls, files |-> paths])

RECURSIVE ScanDirs(_, _, _)
ScanDirs(dirs, files, acc) ==
    IF dirs = <<>> THEN acc
    ELSE LET src == Head(dirs)
             image_files == SelectSeq(files[src], IsImage)
         IN ScanDirs(Tail(dirs), files, AddEntry(acc, MapLabel(src), PathsOf(src, image_files)))

(* collect_images_per_class: the ordered dict as a sequence of [cls, files] *)
collect_images_per_class(t) ==
    IF ~t.exists THEN <<>> ELSE ScanDirs(t.dirs, t.files, <<>>)

RECURSIVE TotalFiles(_)
TotalFiles(es) == IF es = <<>> THEN 0 ELSE Len(Head(es).files) + TotalFiles(Tail(es))

(* The ratio constants are IEEE-754 doubles. The double q nearest to a/b is
     q = a/b + D / (b * 2^(53+J)),   2^-(J+1) <= q < 2^-J,
   and the tables give <<D, J>>. A product q * n whose exact value a*n/b is an integer k
   is rounded to the double next to k when n * |D| exceeds half the spacing of the
   doubles on that side of k, which floor() or ceil() then turn into k - 1 or k + 1. *)

(* TRAIN_RATIO = r/10 for r = 1..9: a = r, b = 10 *)
TrainSizeErr == <<
    <<4, 3>>, <<4, 2>>, <<-2, 1>>, <<4, 1>>, <<0, 0>>, <<-2, 0>>, <<-4, 0>>, <<4, 0>>,
    <<2, 0>> >>

(* TEST_RATIO/(TEST_RATIO+VAL_RATIO) for VAL_RATIO = v/10 (row), TEST_RATIO = t/10
   (column), v, t = 1..9: a = t, b = t + v *)
TestSizeErr == <<
    << <<0, 0>>, <<-1, 0>>, <<-4, 0>>, <<2, 0>>, <<2, 0>>, <<4, 0>>, <<0, 0>>, <<5, 0>>, <<2, 0>> >>,
    << <<-1, 1>>, <<0, 0>>, <<-1, 0>>, <<-2, 0>>, <<1, 0>>, <<-8, 0>>, <<1, 0>>, <<4, 0>>, <<-6, 0>> >>,
    << <<0, 1>>, <<2, 1>>, <<0, 0>>, <<5, 0>>, <<0, 0>>, <<6, 0>>, <<-4, 0>>, <<2, 0>>, <<0, 0>> >>,
    << <<2, 2>>, <<-2, 1>>, <<4, 1>>, <<0, 0>>, <<2, 0>>, <<-2, 0>>, <<-12, 0>>, <<-4, 0>>, <<-2, 0>> >>,
    << <<4, 2>>, <<5, 1>>, <<-8, 1>>, <<5, 1>>, <<0, 0>>, <<-4, 0>>, <<4, 0>>, <<4, 0>>, <<6, 0>> >>,
    << <<5, 2>>, <<0, 1>>, <<6, 1>>, <<4, 1>>, <<-3, 1>>, <<0, 0>>, <<10, 0>>, <<10, 0>>, <<-3, 0>> >>,
    << <<8, 2>>, <<14, 2>>, <<-2, 1>>, <<2, 1>>, <<4, 1>>, <<6, 1>>, <<0, 0>>, <<-1, 0>>, <<0, 0>> >>,
    << <<5, 3>>, <<4, 2>>, <<-4, 1>>, <<-4, 1>>, <<-8, 1>>, <<8, 1>>, <<-13, 1>>, <<0, 0>>, <<1, 0>> >>,
    << <<4, 3>>, <<2, 2>>, <<0, 1>>, <<4, 1>>, <<2, 1>>, <<-9, 1>>, <<-16, 1>>, <<-2, 1>>, <<0, 0>> >> >>

RECURSIVE Pow2(_)
Pow2(e) == IF e = 0 THEN 1 ELSE 2 * Pow2(e - 1)

(* the least c with k <= 2^c: the doubles just below k >= 1 are 2^(c-53) apart *)
RECURSIVE CeilLog2(_)
CeilLog2(k) == IF k <= 1 THEN 0 ELSE 1 + CeilLog2((k + 1) \div 2)

(* the greatest e with 2^e <= k: the doubles just above k >= 1 are 2^(e-52) apart *)
RECURSIVE FloorLog2(_)
FloorLog2(k) == IF k < 2 THEN 0 ELSE 1 + FloorLog2(k \div 2)

NTrainCeil(r, n) == (r * n + 9) \div 10

(* sklearn _validate_shuffle_split for train_size = r/10 (r = 1..9), test_size = None:
   n_train = floor(train_size * n) in double arithmetic *)
NTrain(r, n) ==
    LET k == (r * n) \div 10
        D == TrainSizeErr[r][1]
        J == TrainSizeErr[r][2]
    IN IF /\ (r * n) % 10 = 0
          /\ k > 0
          /\ D < 0
          /\ 2 * n * (-D) > 10 * Pow2(CeilLog2(k) + J)
       THEN k - 1
       ELSE k

(* sklearn _validate_shuffle_split for test_size = (t/10)/((t/10)+(v/10)) (t, v = 1..9),
   train_size = None: n_test = ceil(test_size * m) in double arithmetic *)
NTest(t, v, m) ==
    LET b == t + v
        k == (t * m) \div b
        D == TestSizeErr[v][t][1]
        J == TestSizeErr[v][t][2]
    IN IF (t * m) % b # 0 THEN k + 1
       ELSE IF /\ k > 0
               /\ D > 0
               /\ m * D > b * Pow2(FloorLog2(k) + J)
            THEN k + 1
            ELSE k

(* ShuffleSplit: test = permutation[:n_test], train = permutation[n_test:n_test+n_train] *)
Shuffled(files, from, count) ==
    [i \in 1..count |-> files[Perm42[Len(files)][from + i] + 1]]

Abs(x) == IF x < 0 THEN -x ELSE x

(* The sizes the two train_test_split calls of copy_split give a class of n files, for
   ratios in tenths from -9 to 9; ok = FALSE is a raised ValueError or ZeroDivisionError.
   test_size lies in (0, 1) exactly when TEST_RATIO and VAL_RATIO are non-zero and of the
   same sign, and it is then the same double as for their absolute values. *)
SplitCounts(n, r) ==
    LET n_train == NTrain(r[1], n)
        m == n - n_train
        den0 == r[3] + r[2]
        num == IF den0 < 0 THEN -r[3] ELSE r[3]
        den == IF den0 < 0 THEN -den0 ELSE den0
        n_test == IF den = 0 THEN 0 ELSE NTest(Abs(r[3]), Abs(r[2]), m)
        n_val == m - n_test
        failed == [ok |-> FALSE, train |-> 0, val |-> 0, test |-> 0]
    IN IF r[1] <= 0 \/ r[1] >= 10 \/ n_train = 0 THEN failed
       ELSE IF den0 = 0 \/ num <= 0 \/ num >= den THEN failed
       ELSE IF n_val = 0 THEN failed
       ELSE [ok |-> TRUE, train |-> n_train, val |-> n_val, test |-> n_test]

(* The two train_test_split calls of copy_split on the files of one class *)
SplitFiles(files, r) ==
    LET c == SplitCounts(Len(files), r)
        temp == Shuffled(files, 0, c.val + c.test)
    IN IF ~c.ok THEN [ok |-> FALSE, train |-> <<>>, val |-> <<>>, test |-> <<>>]
       ELSE [ok |-> TRUE,
             train |-> Shuffled(files, c.val + c.test, c.train),
             val |-> Shuffled(temp, c.test, c.val),
             test |-> Shuffled(temp, 0, c.test)]

Transfers(cls, split_name, file_list) ==
    [i \in 1..Len(file_list) |-> [split |-> split_name, cls |-> cls, src |-> file_list[i]]]

(* dst of the head transfer: os.path.join(dest_dir, basename), renamed with one random
   suffix when that path exists *)
PlainDst(item) == [split |-> item.split, cls |-> item.cls, name |-> item.src.name]

Collides(item, o) == PlainDst(item) \in DOMAIN o

Renamed(name, k) == [name EXCEPT !.sfx = Append(@, RandInt(k))]

DstOf(item, o, k) ==
    IF Collides(item, o)
    THEN [split |-> item.split, cls |-> item.cls, name |-> Renamed(item.src.name, k + 1)]
    ELSE PlainDst(item)

(* shutil.move takes the source file out of its raw directory *)
MoveSource(t, src) ==
    [t EXCEPT !.files[src.dir] = SelectSeq(@, LAMBDA x : x # src.name)]

Put(o, dst, content) ==
    [p \in DOMAIN o \cup {dst} |-> IF p = dst THEN content ELSE o[p]]

(* verify_output: image files under every split/class directory *)
verify_output(o) ==
    Cardinality({ p \in DOMAIN o :
                    /\ p.split \in Range(Splits)
                    /\ p.cls \in Range(TARGET_CLASSES)
                    /\ IsImage(p.name) })

NoClass == [cls |-> "", files |-> <<>>, train |-> <<>>, val |-> <<>>, test |-> <<>>]

----------------------------------------------------------------------------
(* __main__ of prepare_and_split.py *)

PipeInit ==
    /\ outDirs = {}
    /\ out = << >>
    /\ pc = "start"
    /\ runs = 1
    /\ interrupts = 0
    /\ entries = <<>>
    /\ todo = <<>>
    /\ cur = NoClass
    /\ queue = <<>>
    /\ draws = 0
    /\ total_to_copy = 0
    /\ total_copied = 0
    /\ log = <<>>
    /\ verified = -1

(* lines 242-244: the pre-check fails, exit(1) *)
PreCheckFail ==
    /\ pc = "start"
    /\ ~check_source_directory(fs)
    /\ pc' = "exit_precheck"
    /\ UNCHANGED <<fs, ratios, outDirs, out, runs, interrupts, entries, todo, cur, queue,
                   draws, total_to_copy, total_copied, log, verified>>
    /\ UNCHANGED <<detVars, balVars, ratioVars>>

(* lines 247-250: the answer is not 'y', exit(0) *)
Cancel ==
    /\ pc = "start"
    /\ check_source_directory(fs)
    /\ pc' = "cancelled"
    /\ UNCHANGED <<fs, ratios, outDirs, out, runs, interrupts, entries, todo, cur, queue,
                   draws, total_to_copy, total_copied, log, verified>>
    /\ UNCHANGED <<detVars, balVars, ratioVars>>

(* lines 252-269 and 86-92: ensure_dirs, the scan, and the start of copy_split *)
Prepare ==
    /\ pc = "start"
    /\ check_source_directory(fs)
    /\ outDirs' = { <<s, c>> : s \in Range(Splits), c \in Range(TARGET_CLASSES) }
    /\ entries' = collect_images_per_class(fs)
    /\ IF entries' = <<>>
       THEN /\ pc' = "exit_noimages"
            /\ UNCHANGED <<todo, total_to_copy>>
       ELSE /\ pc' = "copying"
            /\ todo' = entries'
            /\ total_to_copy' = TotalFiles(entries')
    /\ draws' = 0
    /\ total_copied' = 0
    /\ UNCHANGED <<fs, ratios, out, runs, interrupts, cur, queue, log, verified>>
    /\ UNCHANGED <<detVars, balVars, ratioVars>>

(* lines 94-98: a class without images is skipped with a warning *)
SkipEmptyClass ==
    /\ pc = "copying" /\ queue = <<>> /\ todo # <<>>
    /\ Len(Head(todo).files) = 0
    /\ todo' = Tail(todo)
    /\ UNCHANGED <<fs, ratios, outDirs, out, pc, runs, interrupts, entries, cur, queue,
                   draws, total_to_copy, total_copied, log, verified>>
    /\ UNCHANGED <<detVars, balVars, ratioVars>>

(* lines 103-114: train_test_split raises, the script dies with a traceback *)
SplitAbort ==
    /\ pc = "copying" /\ queue = <<>> /\ todo # <<>>
    /\ Len(Head(todo).files) > 0
    /\ ~SplitFiles(Head(todo).files, ratios).ok
    /\ pc' = "aborted"
    /\ UNCHANGED <<fs, ratios, outDirs, out, runs, interrupts, entries, todo, cur, queue,
                   draws, total_to_copy, total_copied, log, verified>>
    /\ UNCHANGED <<detVars, balVars, ratioVars>>

(* lines 103-120: the class is split into train, val and test *)
SplitClass ==
    /\ pc = "copying" /\ queue = <<>> /\ todo # <<>>
    /\ Len(Head(todo).files) > 0
    /\ LET e == Head(todo)
           s == SplitFiles(e.files, ratios)
       IN /\ s.ok
          /\ cur' = [cls |-> e.cls, files |-> e.files,
                     train |-> s.train, val |-> s.val, test |-> s.test]
          /\ queue' = Transfers(e.cls, "train", s.train) \o Transfers(e.cls, "val", s.val)
                         \o Transfers(e.cls, "test", s.test)
    /\ todo' = Tail(todo)
    /\ UNCHANGED <<fs, ratios, outDirs, out, pc, runs, interrupts, entries,
                   draws, total_to_copy, total_copied, log, verified>>
    /\ UNCHANGED <<detVars, balVars, ratioVars>>

(* lines 133-148: one file is copied (COPY_FILES) or moved to its destination *)
CopyFile ==
    /\ pc = "copying" /\ queue # <<>>
    /\ LET item == Head(queue)
           dst == DstOf(item, out, draws)
       IN /\ <<dst.split, dst.cls>> \in outDirs
          /\ out' = Put(out, dst, [src |-> item.src, done |-> TRUE])
          /\ draws' = IF Collides(item, out) THEN draws + 1 ELSE draws
          /\ log' = Append(log, [src |-> item.src, dst |-> dst, existed |-> dst \in DOMAIN out])
          /\ fs' = IF COPY_FILES THEN fs ELSE MoveSource(fs, item.src)
    /\ queue' = Tail(queue)
    /\ total_copied' = total_copied + 1
    /\ UNCHANGED <<ratios, outDirs, pc, runs, interrupts, entries, todo, cur,
                   total_to_copy, verified>>
    /\ UNCHANGED <<detVars, balVars, ratioVars>>

(* line 143: the process is killed while shutil.copy2 is writing dst *)
InterruptCopy ==
    /\ pc = "copying" /\ queue # <<>>
    /\ interrupts < MaxInterrupts
    /\ LET item == Head(queue)
           dst == DstOf(item, out, draws)
       IN /\ out' = Put(out, dst, [src |-> item.src, done |-> FALSE])
          /\ draws' = IF Collides(item, out) THEN draws + 1 ELSE draws
    /\ pc' = "interrupted"
    /\ interrupts' = interrupts + 1
    /\ UNCHANGED <<fs, ratios, outDirs, runs, entries, todo, cur, queue,
                   total_to_copy, total_copied, log, verified>>
    /\ UNCHANGED <<detVars, balVars, ratioVars>>

(* lines 162-169 and 271-273: the summary, verify_output, and the success banner *)
Finish ==
    /\ pc = "copying" /\ queue = <<>> /\ todo = <<>>
    /\ verified' = verify_output(out)
    /\ pc' = "complete"
    /\ UNCHANGED <<fs, ratios, outDirs, out, runs, interrupts, entries, todo, cur, queue,
                   draws, total_to_copy, total_copied, log>>
    /\ UNCHANGED <<detVars, balVars, ratioVars>>

(* the script is started again on the same raw root and the output tree as it is *)
Rerun ==
    /\ pc \in {"complete", "aborted", "interrupted"}
    /\ runs < MaxRuns
    /\ runs' = runs + 1
    /\ pc' = "start"
    /\ entries' = <<>>
    /\ todo' = <<>>
    /\ cur' = NoClass
    /\ queue' = <<>>
    /\ draws' = 0
    /\ total_to_copy' = 0
    /\ total_copied' = 0
    /\ log' = <<>>
    /\ verified' = -1
    /\ UNCHANGED <<fs, ratios, outDirs, out, interrupts>>
    /\ UNCHANGED <<detVars, balVars, ratioVars>>

DetIdle == detA = NoRoot /\ detB = NoRoot /\ detPc = "idle" /\ detOutA = {} /\ detOutB = {}
BalIdle ==
    /\ balDir = {} /\ balCap = 0 /\ balOrig = {} /\ balFiles = {} /\ balPending = {}
    /\ balRemoved = {} /\ balPc = "idle" /\ balRuns = 0
RatioIdle == ratioN = 0 /\ ratioPc = "idle" /\ ratioCounts = <<0, 0, 0>>

Init ==
    /\ fs \in RawTrees \cup {NoRoot}
    /\ ratios = <<TRAIN_RATIO, VAL_RATIO, TEST_RATIO>>
    /\ PipeInit
    /\ DetIdle /\ BalIdle /\ RatioIdle

Next ==
    \/ PreCheckFail
    \/ Cancel
    \/ Prepare
    \/ SkipEmptyClass
    \/ SplitAbort
    \/ SplitClass
    \/ CopyFile
    \/ InterruptCopy
    \/ Finish
    \/ Rerun

Spec == Init /\ [][Next]_vars

----------------------------------------------------------------------------
(* The pipeline under other values of the three ratio constants *)

InitCfg ==
    /\ fs \in RawTrees \cup {NoRoot}
    /\ ratios \in RatioConfigs
    /\ PipeInit
    /\ DetIdle /\ BalIdle /\ RatioIdle

NextCfg ==
    \/ PreCheckFail
    \/ Cancel
    \/ Prepare
    \/ SkipEmptyClass
    \/ SplitAbort
    \/ SplitClass
    \/ CopyFile
    \/ Finish

SpecCfg == InitCfg /\ [][NextCfg]_vars

----------------------------------------------------------------------------
(* Scan and split of one raw root under two directory enumeration orders *)

DetDirs == {"call", "rock"}

ImageNames == { f \in FileNames : IsImage(f) }

DetTrees ==
    { t \in [exists : {TRUE},
             dirs : { o \in Listings(DetDirs, Cardinality(DetDirs)) : Range(o) = DetDirs },
             files : [RawDirs -> Listings(ImageNames, MaxPerDir)]] :
        \A d \in RawDirs \ DetDirs : t.files[d] = <<>> }

SameContents(t, u) ==
    /\ Range(t.dirs) = Range(u.dirs)
    /\ \A d \in RawDirs : Range(t.files[d]) = Range(u.files[d])

SplitSet(cls, split_name, file_list) ==
    { [split |-> split_name, cls |-> cls, src |-> file_list[i]] : i \in DOMAIN file_list }

(* The (split, class, source file) triples copy_split reaches before it ends or raises *)
RECURSIVE Assigned(_, _)
Assigned(es, r) ==
    IF es = <<>> THEN {}
    ELSE LET e == Head(es)
             s == SplitFiles(e.files, r)
         IN IF Len(e.files) = 0 THEN Assigned(Tail(es), r)
            ELSE IF ~s.ok THEN {}
            ELSE SplitSet(e.cls, "train", s.train) \cup SplitSet(e.cls, "val", s.val)
                   \cup SplitSet(e.cls, "test", s.test) \cup Assigned(Tail(es), r)

Assignment(t) == Assigned(collect_images_per_class(t), ratios)

InitDet ==
    /\ detA \in DetTrees
    /\ detB \in { u \in DetTrees : SameContents(detA, u) }
    /\ detPc = "in"
    /\ detOutA = {} /\ detOutB = {}
    /\ fs = NoRoot
    /\ ratios = <<TRAIN_RATIO, VAL_RATIO, TEST_RATIO>>
    /\ PipeInit
    /\ BalIdle /\ RatioIdle

DetRun ==
    /\ detPc = "in"
    /\ detOutA' = Assignment(detA)
    /\ detOutB' = Assignment(detB)
    /\ detPc' = "done"
    /\ UNCHANGED <<detA, detB, pipeVars, balVars, ratioVars>>

SpecDet == InitDet /\ [][DetRun]_vars

----------------------------------------------------------------------------
(* fix_invalid_train.py / fix_invalid_val.py on one folder *)

BalEntries ==
    { [id |-> "1.jpg", kind |-> "image"],
      [id |-> "2.jpg", kind |-> "image"],
      [id |-> "3.png", kind |-> "image"],
      [id |-> "4.jpeg", kind |-> "image"],
      [id |-> "Thumbs.db", kind |-> "other"],
      [id |-> "old", kind |-> "dir"] }

Images(S) == { f \in S : f.kind = "image" }

InitBal ==
    /\ balDir \in SUBSET BalEntries
    /\ balCap \in 0..MaxCap
    /\ balOrig = balDir
    /\ balFiles = {}
    /\ balPending = {}
    /\ balRemoved = {}
    /\ balPc = "start"
    /\ balRuns = 0
    /\ fs = NoRoot
    /\ ratios = <<TRAIN_RATIO, VAL_RATIO, TEST_RATIO>>
    /\ PipeInit
    /\ DetIdle /\ RatioIdle

(* lines 7-12: the listing is longer than max_images, random.sample picks the surplus *)
BalSample ==
    /\ balPc = "start"
    /\ Cardinality(balDir) > balCap
    /\ \E delete_files \in SUBSET balDir :
          /\ Cardinality(delete_files) = Cardinality(balDir) - balCap
          /\ balPending' = delete_files
    /\ balFiles' = balDir
    /\ balRemoved' = {}
    /\ balPc' = "removing"
    /\ UNCHANGED <<balDir, balCap, balOrig, balRuns, pipeVars, detVars, ratioVars>>

(* lines 7-11, 17-18: the listing is not longer than max_images *)
BalNoop ==
    /\ balPc = "start"
    /\ Cardinality(balDir) <= balCap
    /\ balFiles' = balDir
    /\ balPending' = {}
    /\ balRemoved' = {}
    /\ balPc' = "done"
    /\ balRuns' = balRuns + 1
    /\ UNCHANGED <<balDir, balCap, balOrig, pipeVars, detVars, ratioVars>>

(* lines 14-15: os.remove of the next sampled entry *)
BalRemove ==
    /\ balPc = "removing"
    /\ \E f \in balPending :
          /\ f.kind # "dir"
          /\ balDir' = balDir \ {f}
          /\ balPending' = balPending \ {f}
          /\ balRemoved' = balRemoved \cup {f}
    /\ UNCHANGED <<balCap, balOrig, balFiles, balPc, balRuns, pipeVars, detVars, ratioVars>>

(* lines 14-15: os.remove raises on a directory and the script dies *)
BalRemoveFail ==
    /\ balPc = "removing"
    /\ \E f \in balPending : f.kind = "dir"
    /\ balPc' = "error"
    /\ UNCHANGED <<balDir, balCap, balOrig, balFiles, balPending, balRemoved, balRuns,
                   pipeVars, detVars, ratioVars>>

(* lines 17-18: every sampled entry is removed *)
BalFinish ==
    /\ balPc = "removing"
    /\ balPending = {}
    /\ balPc' = "done"
    /\ balRuns' = balRuns + 1
    /\ UNCHANGED <<balDir, balCap, balOrig, balFiles, balPending, balRemoved,
                   pipeVars, detVars, ratioVars>>

(* the script is run again on the same folder *)
BalAgain ==
    /\ balPc = "done"
    /\ balRuns < MaxBalRuns
    /\ balPc' = "start"
    /\ UNCHANGED <<balDir, balCap, balOrig, balFiles, balPending, balRemoved, balRuns,
                   pipeVars, detVars, ratioVars>>

NextBal ==
    \/ BalSample
    \/ BalNoop
    \/ BalRemove
    \/ BalRemoveFail
    \/ BalFinish
    \/ BalAgain

SpecBal == InitBal /\ [][NextBal]_vars

----------------------------------------------------------------------------
(* The sizes of the three lists for large classes *)

(* the configured ratios, and two settings whose doubles round a product across an
   integer: 0.7 * 170 = 118.99999999999999 and (0.4/0.7) * 7 = 4.000000000000001 *)
RatioCases == { <<TRAIN_RATIO, VAL_RATIO, TEST_RATIO>>, <<7, 2, 1>>, <<3, 3, 4>> }

InitRatio ==
    /\ ratioN \in 100..MaxRatioN
    /\ ratioPc = "in"
    /\ ratioCounts = <<0, 0, 0>>
    /\ fs = NoRoot
    /\ ratios \in RatioCases
    /\ PipeInit
    /\ DetIdle /\ BalIdle

RatioSplit ==
    /\ ratioPc = "in"
    /\ LET c == SplitCounts(ratioN, ratios)
       IN /\ c.ok
          /\ ratioCounts' = <<c.train, c.val, c.test>>
    /\ ratioPc' = "done"
    /\ UNCHANGED <<ratioN, pipeVars, detVars, balVars>>

SpecRatio == InitRatio /\ [][RatioSplit]_vars

----------------------------------------------------------------------------
(* Properties *)

LogDsts == { log[i].dst : i \in DOMAIN log }

IsPartition(c) ==
    /\ Range(c.train) \cap Range(c.val) = {}
    /\ Range(c.train) \cap Range(c.test) = {}
    /\ Range(c.val) \cap Range(c.test) = {}
    /\ Range(c.train) \cup Range(c.val) \cup Range(c.test) = Range(c.files)
    /\ Len(c.train) + Len(c.val) + Len(c.test) = Len(c.files)

(* C1: every class, however small, is split into three disjoint lists that cover it,
   the split step never aborts the run, and a finished run has transferred as many
   files as were scanned. *)
C1_SplitTotal ==
    /\ pc # "aborted"
    /\ IsPartition(cur)
    /\ (pc = "complete" => total_copied = total_to_copy)

(* C2: no transfer of a run silently lands on a path that already holds a file; a
   rename that does not resolve the collision is an error, not an overwrite. *)
C2_NoSilentOverwrite == \A i \in DOMAIN log : ~log[i].existed

(* C3: the success banner is reached only when the number of files the run scanned
   equals the number of files the run put into the output tree. *)
C3_SuccessMeansConserved ==
    pc = "complete" => total_to_copy = Cardinality(LogDsts \cap DOMAIN out)

(* C4: two scans of the same directory contents give the same (split, class, file)
   assignment whatever order the directories are enumerated in. *)
C4_OrderIndependent == detPc = "done" => detOutA = detOutB

(* C5: after the first balancer run exactly min(K, c) images are left, all of them from
   the original folder, and exactly max(0, c - K) images were deleted; the second run
   deletes nothing. *)
C5_BalancerCap ==
    LET c == Cardinality(Images(balOrig))
        kept == Cardinality(Images(balDir))
    IN /\ (balPc = "done" /\ balRuns = 1) =>
            /\ kept = (IF c < balCap THEN c ELSE balCap)
            /\ Cardinality(Images(balRemoved)) = (IF c > balCap THEN c - balCap ELSE 0)
            /\ Images(balDir) \subseteq Images(balOrig)
       /\ (balPc = "done" /\ balRuns = 2) => balRemoved = {}

(* C6: when no run was interrupted, a transfer of a re-run never changes a file that
   an earlier run left in the output tree. *)
C6_RerunKeepsFiles ==
    [][(pc' = "copying" /\ interrupts' = 0) =>
        \A p \in DOMAIN out \ LogDsts :
            out[p].done => (p \in DOMAIN out' /\ out'[p] = out[p])]_vars

(* C7: every file at a final destination path is a complete copy of its source, also
   after a run was interrupted. *)
C7_NoTruncatedFile == \A p \in DOMAIN out : out[p].done

(* C8: a run whose scan found no image at all does not go on to report success. *)
C8_EmptyCorpusFails == pc = "complete" => total_to_copy > 0

RatiosValid(r) == r[1] >= 0 /\ r[2] >= 0 /\ r[3] >= 0 /\ r[1] + r[2] + r[3] = 10

(* C9: with ratios that are negative or do not sum to 1.0 nothing is scanned or
   written: the run is rejected at startup. *)
C9_BadRatiosRejected ==
    ~RatiosValid(ratios) =>
        /\ entries = <<>>
        /\ out = << >>
        /\ pc \notin {"copying", "aborted", "complete"}

(* C9, the case: a run with invalid ratios that reached the success banner. *)
C9_RunsToSuccess == ~RatiosValid(ratios) /\ pc = "complete" /\ total_copied > 0

(* C10: a class of N >= 100 files gets exactly floor(0.8 N) train files, and the rest
   is divided between val and test with a difference of at most one. *)
C10_RatioAdherence ==
    (ratioPc = "done" /\ ratios = <<8, 1, 1>>) =>
        LET tr == ratioCounts[1]
            va == ratioCounts[2]
            te == ratioCounts[3]
        IN /\ 10 * tr <= 8 * ratioN
           /\ 8 * ratioN < 10 * (tr + 1)
           /\ va + te = ratioN - tr
           /\ va - te \in {-1, 0, 1}

(* C10, the case: a class whose remainder is odd was split. *)
C10_Witness ==
    /\ ratioPc = "done"
    /\ ratios = <<8, 1, 1>>
    /\ ratioN >= 100
    /\ ratioCounts[2] # ratioCounts[3]
    /\ ratioCounts[1] + ratioCounts[2] + ratioCounts[3] = ratioN

====
